---- MODULE Spec2Model ----
(***************************************************************************)
(* Model of the apply/eval interpreter of src/apply-eval.py (and of the    *)
(* Scope class of src/nanolisp.py, which is the same code as Environment). *)
(*                                                                         *)
(* Host values are tagged records, one field layout per host type, so that *)
(* values of different host types can be compared.  An s-expression is a   *)
(* host value (a list, or an atom), exactly as in the source.              *)
(***************************************************************************)
EXTENDS Integers, Sequences, FiniteSets, TLC

VARIABLES frames, envs, last

vars == <<frames, envs, last>>

(***************************************************************************)
(* Host values.                                                            *)
(***************************************************************************)
None == [t |-> "none"]
Num(n) == [t |-> "int", n |-> n]
Str(s) == [t |-> "str", s |-> s]
Bool(b) == [t |-> "bool", b |-> b]
List(l) == [t |-> "list", l |-> l]
Routine(r) == [t |-> "routine", r |-> r]
EnvRef(id) == [t |-> "env", id |-> id]
\* the tuple ('lambda', env, sexpression[0], sexpression[1]) built by _lambda
LambdaTuple(env, params, body) ==
    [t |-> "lambda", env |-> env, params |-> params, body |-> body]

\* Python: bool is a subclass of int; True == 1 and hash(True) == hash(1).
IsNumber(v) == v.t \in {"int", "bool"}
NumOf(v) == IF v.t = "bool" THEN (IF v.b THEN 1 ELSE 0) ELSE v.n

\* lists, dicts and tuples that hold a dict are unhashable in the host
Hashable(v) == v.t \in {"int", "str", "bool", "none", "routine"}

\* the dict key a hashable value selects (True and 1 select the same key)
KeyOf(v) == IF v.t = "bool" THEN Num(NumOf(v)) ELSE v

\* host ==, on the values the model compares (atoms and lists of atoms;
\* tuples compare by their components)
RECURSIVE PyEq(_, _)
PyEq(a, b) ==
    IF IsNumber(a) /\ IsNumber(b) THEN NumOf(a) = NumOf(b)
    ELSE IF a.t = "list" /\ b.t = "list" THEN
        /\ Len(a.l) = Len(b.l)
        /\ \A i \in 1..Len(a.l) : PyEq(a.l[i], b.l[i])
    ELSE a = b

\* host truthiness of a value (as tested by "if" in _cond); fr is the heap,
\* needed for the length of a dict
Truthy(fr, v) ==
    CASE v.t = "none" -> FALSE
      [] v.t = "bool" -> v.b
      [] v.t = "int" -> v.n # 0
      [] v.t = "str" -> v.s # ""
      [] v.t = "list" -> v.l # <<>>
      [] v.t = "env" -> DOMAIN fr[v.id].local # {}
      [] OTHER -> TRUE

(***************************************************************************)
(* Environment: the heap is a sequence of frames; a frame is its _parent   *)
(* (0 for None) and the dict's own items.                                  *)
(***************************************************************************)
NoParent == 0

Frame(parent, local) == [parent |-> parent, local |-> local]

EmptyDict == [k \in {} |-> None]

\* Environment.__init__
Environment(fr, parent) == Append(fr, Frame(parent, EmptyDict))

\* "elif self._parent:" -- the host truth value of the parent object: None
\* is false, and a dict (an Environment is one) is false when it is empty
ParentTruthy(fr, e) ==
    /\ fr[e].parent # NoParent
    /\ DOMAIN fr[fr[e].parent].local # {}

\* Environment.__getitem__ ; ok = FALSE is KeyError
RECURSIVE GetItem(_, _, _)
GetItem(fr, e, item) ==
    IF item \in DOMAIN fr[e].local THEN [ok |-> TRUE, val |-> fr[e].local[item]]
    ELSE IF ParentTruthy(fr, e) THEN GetItem(fr, fr[e].parent, item)
    ELSE [ok |-> FALSE, val |-> None]

\* Environment.get
Get(fr, e, item, default) ==
    LET r == GetItem(fr, e, item) IN IF r.ok THEN r.val ELSE default

\* Environment.__contains__
RECURSIVE Contains(_, _, _)
Contains(fr, e, item) ==
    IF item \in DOMAIN fr[e].local THEN TRUE
    ELSE IF ParentTruthy(fr, e) THEN Contains(fr, fr[e].parent, item)
    ELSE FALSE

\* a faulty __setitem__ that writes through: it rebinds the item in the nearest
\* frame that binds it, as __delitem__ deletes it
RECURSIVE SetItemThrough(_, _, _, _)
SetItemThrough(fr, e, item, value) ==
    IF item \notin DOMAIN fr[e].local /\ ParentTruthy(fr, e)
           /\ Contains(fr, fr[e].parent, item)
        THEN SetItemThrough(fr, fr[e].parent, item, value)
    ELSE [fr EXCEPT ![e].local =
             [k \in DOMAIN @ \cup {item} |-> IF k = item THEN value ELSE @[k]]]

\* dict.__setitem__, inherited unchanged by Environment
SetItem(fr, e, item, value) ==
    [fr EXCEPT ![e].local =
        [k \in DOMAIN @ \cup {item} |-> IF k = item THEN value ELSE @[k]]]

\* Environment.__delitem__ ; ok = FALSE is KeyError
RECURSIVE DelItem(_, _, _)
DelItem(fr, e, item) ==
    IF item \in DOMAIN fr[e].local THEN
        [ok |-> TRUE,
         fr |-> [fr EXCEPT ![e].local = [k \in DOMAIN @ \ {item} |-> @[k]]]]
    ELSE IF ParentTruthy(fr, e) THEN DelItem(fr, fr[e].parent, item)
    ELSE [ok |-> FALSE, fr |-> fr]

(***************************************************************************)
(* ApplyEvalInterpreter.                                                   *)
(*                                                                         *)
(* An evaluation threads the state st through the recursion: the heap      *)
(* (st.frames) and three histories that the claims are stated over:        *)
(*   st.evals   one record per finished _eval call, in order of return:    *)
(*              the expression, the environment, the nesting depth of the  *)
(*              call (0 for the top-level call) and the outcome;           *)
(*   st.applies one record per application of a lambda tuple, in order;    *)
(*   st.binds   one record per "env[...] = ..." of _set and _setq.         *)
(* An outcome is [st, ok, val, err]: ok = FALSE is a raised exception,     *)
(* whose host class is err.                                                *)
(***************************************************************************)
MaxDepth == 8

Return(st, v) == [st |-> st, ok |-> TRUE, val |-> v, err |-> ""]
Raise(st, e) == [st |-> st, ok |-> FALSE, val |-> None, err |-> e]
Outcome(r) == [ok |-> r.ok, val |-> r.val, err |-> r.err]

\* self._builtins
_builtins ==
    LET names == {"set", "setq", "cond", "lambda", "car", "cdr", "quote",
                  "+", "-", "*", "/", "equal?"}
        keys == {Str(n) : n \in names} \cup {Str("#t"), Str("#nil")}
    IN [k \in keys |->
           CASE k = Str("#t") -> Bool(TRUE)
             [] k = Str("#nil") -> Bool(FALSE)
             [] OTHER -> Routine(k.s)]

\* a faulty _lazy that lists set among the forms whose operands are not
\* evaluated
_lazyWithSet == {Str("lambda"), Str("cond"), Str("quote"), Str("setq"), Str("set")}

\* self._lazy
_lazy == {Str("lambda"), Str("cond"), Str("quote"), Str("setq")}

BuiltinsId == 1
GlobalsId == 2

\* ApplyEvalInterpreter.__init__ followed by make_global_environment: the
\* heap holds the _builtins dict and the global Environment
make_global_environment ==
    LET fr0 == <<Frame(NoParent, _builtins)>>
        fr1 == Environment(fr0, BuiltinsId)
        fr2 == SetItem(fr1, GlobalsId, Str("__builtins__"), EnvRef(BuiltinsId))
    IN SetItem(fr2, GlobalsId, Str("__globals__"), EnvRef(GlobalsId))

\* sum(expr): 0 + expr[0] + expr[1] + ...
RECURSIVE sum(_)
sum(s) == IF s = <<>> THEN 0 ELSE NumOf(s[Len(s)]) + sum(SubSeq(s, 1, Len(s) - 1))

\* operator.div on host integers: floor division
FloorDiv(a, b) == a \div b

\* a host sequence repeated n times (nothing when n <= 0)
RECURSIVE Repeat(_, _, _)
Repeat(empty, s, n) == IF n <= 0 THEN empty ELSE s \o Repeat(empty, s, n - 1)

Times(v, n) ==
    IF v.t = "str" THEN Str(Repeat("", v.s, n)) ELSE List(Repeat(<<>>, v.l, n))

\* operator.sub, operator.mul, operator.div on two host values; ok = FALSE is
\* the exception err
BinOp(op, a, b) ==
    IF IsNumber(a) /\ IsNumber(b) THEN
        IF op = "/" /\ NumOf(b) = 0
            THEN [ok |-> FALSE, val |-> None, err |-> "ZeroDivisionError"]
        ELSE [ok |-> TRUE, err |-> "",
              val |-> Num(CASE op = "-" -> NumOf(a) - NumOf(b)
                            [] op = "*" -> NumOf(a) * NumOf(b)
                            [] op = "/" -> FloorDiv(NumOf(a), NumOf(b)))]
    ELSE IF op = "*" /\ IsNumber(a) /\ b.t \in {"str", "list"}
        THEN [ok |-> TRUE, val |-> Times(b, NumOf(a)), err |-> ""]
    ELSE IF op = "*" /\ IsNumber(b) /\ a.t \in {"str", "list"}
        THEN [ok |-> TRUE, val |-> Times(a, NumOf(b)), err |-> ""]
    ELSE IF op = "*" /\ "lambda" \in {a.t, b.t} /\ (IsNumber(a) \/ IsNumber(b))
        THEN [ok |-> FALSE, val |-> None, err |-> "Unmodelled"]
    ELSE [ok |-> FALSE, val |-> None, err |-> "TypeError"]

\* reduce(op, expr) for a non-empty expr: a left fold with no initial value,
\* so that a single item is returned as it is
RECURSIVE reduce(_, _)
reduce(op, s) ==
    IF Len(s) = 1 THEN [ok |-> TRUE, val |-> s[1], err |-> ""]
    ELSE LET acc == reduce(op, SubSeq(s, 1, Len(s) - 1)) IN
         IF acc.ok THEN BinOp(op, acc.val, s[Len(s)]) ELSE acc

\* dict(zip(names, args)): pairs up to the shorter of the two, a later pair
\* for the same key replacing an earlier one
ZipDict(names, args) ==
    LET n == IF Len(names) < Len(args) THEN Len(names) ELSE Len(args)
        keys == {KeyOf(names[i]) : i \in 1..n}
        lastOf(k) == CHOOSE i \in 1..n :
                        /\ KeyOf(names[i]) = k
                        /\ \A j \in 1..n : KeyOf(names[j]) = k => j <= i
    IN [k \in keys |-> args[lastOf(k)]]

\* a faulty _apply that leaves the parameters unbound: env.update forgotten
UpdateNothing(fr, e, d) == fr

\* env.update(d)
Update(fr, e, d) ==
    [fr EXCEPT ![e].local =
        [k \in DOMAIN @ \cup DOMAIN d |-> IF k \in DOMAIN d THEN d[k] ELSE @[k]]]

LogBind(st, env, key, value) ==
    [st EXCEPT !.binds = Append(@, [env |-> env, key |-> key, v |-> value])]

\* ApplyEvalInterpreter._lambda
_lambda(sexpression, env, st) ==
    IF Len(sexpression) < 2 THEN Raise(st, "IndexError")
    ELSE Return(st, LambdaTuple(env, sexpression[1], sexpression[2]))

\* ApplyEvalInterpreter._set
_set(sexpression, env, st) ==
    IF Len(sexpression) < 2 THEN Raise(st, "IndexError")
    ELSE IF ~Hashable(sexpression[1]) THEN Raise(st, "TypeError")
    ELSE LET key == KeyOf(sexpression[1])
             st1 == [st EXCEPT !.frames = SetItem(@, env, key, sexpression[2])]
         IN Return(LogBind(st1, env, key, sexpression[2]), sexpression[2])

\* the inline routines of self._builtins
car(expr, st) ==
    IF expr = <<>> THEN Raise(st, "IndexError")
    ELSE CASE expr[1].t = "list" ->
                IF expr[1].l = <<>> THEN Raise(st, "IndexError")
                ELSE Return(st, Head(expr[1].l))
           [] expr[1].t = "lambda" -> Return(st, Str("lambda"))
           [] expr[1].t \in {"str", "env"} -> Raise(st, "Unmodelled")
           [] OTHER -> Raise(st, "TypeError")

cdr(expr, st) ==
    IF expr = <<>> THEN Raise(st, "IndexError")
    ELSE CASE expr[1].t = "list" ->
                Return(st, List(IF expr[1].l = <<>> THEN <<>> ELSE Tail(expr[1].l)))
           [] expr[1].t \in {"lambda", "str"} -> Raise(st, "Unmodelled")
           [] OTHER -> Raise(st, "TypeError")

quote(expr, st) ==
    IF expr = <<>> THEN Raise(st, "IndexError") ELSE Return(st, expr[1])

AllNumbers(expr) == \A i \in 1..Len(expr) : IsNumber(expr[i])

\* '+': lambda expr, ctx: sum(expr)
Plus(expr, st) ==
    IF AllNumbers(expr) THEN Return(st, Num(sum(expr)))
    ELSE Raise(st, "TypeError")

\* '-', '*', '/': lambda expr, ctx: reduce(operator.<op>, expr); reduce of an
\* empty sequence with no initial value raises TypeError
Reduce(op, expr, st) ==
    IF expr = <<>> THEN Raise(st, "TypeError")
    ELSE LET r == reduce(op, expr) IN
         IF r.ok THEN Return(st, r.val) ELSE Raise(st, r.err)

\* 'equal?': lambda expr, ctx: expr[0] == expr[1]
equal(expr, st) ==
    IF Len(expr) < 2 THEN Raise(st, "IndexError")
    ELSE Return(st, Bool(PyEq(expr[1], expr[2])))

(***************************************************************************)
(* The host call stack.  The machine m is                                  *)
(*   m.stack  the _eval calls in progress, the innermost last; a call is   *)
(*            its arguments (x, env), its depth d, the number cd of lambda *)
(*            bodies it is nested in, and its position pc:                  *)
(*              "eval"   at its first statement                             *)
(*              "map"    in map(...), waiting for operand i                 *)
(*              "setq"   in _setq, waiting for self.eval                    *)
(*              "cond"   in _cond, waiting for the condition of clause i    *)
(*              "effect" in _cond, waiting for the effect of clause i       *)
(*              "body"   in _apply, waiting for the body of the lambda      *)
(*            with vals the operands evaluated so far and, once _apply is  *)
(*            entered, the args it was given;                               *)
(*   m.ret    the outcome of the call that returned last;                  *)
(*   m.st     the heap and the histories.                                  *)
(* _apply, _cond, _setq and map run inside the _eval call that entered     *)
(* them.                                                                   *)
(***************************************************************************)
Call(x, env, d, cd) ==
    [x |-> x, env |-> env, d |-> d, cd |-> cd, pc |-> "eval", i |-> 0, vals |-> <<>>]

Top(m) == m.stack[Len(m.stack)]

\* the running call moves to position `at` and calls _eval
Enter(m, at, x, env, d, cd) ==
    [m EXCEPT !.stack = Append([@ EXCEPT ![Len(@)] = at], Call(x, env, d, cd))]

\* the running call returns (or raises) r
Leave(m, r) ==
    LET a == Top(m) IN
    [stack |-> SubSeq(m.stack, 1, Len(m.stack) - 1),
     ret |-> Outcome(r),
     st |-> [r.st EXCEPT !.evals =
                Append(@, [e |-> a.x, env |-> a.env, d |-> a.d,
                           ok |-> r.ok, v |-> r.val])]]

\* the running call returns what the call that returned last returned, or
\* lets the exception it raised pass through
Propagate(m) ==
    Leave(m, [st |-> m.st, ok |-> m.ret.ok, val |-> m.ret.val, err |-> m.ret.err])

\* ApplyEvalInterpreter._cond, at clause i: "for condition, effect in
\* sexpression: if self._eval(condition, env): ..."
_cond(m, a, i) ==
    LET sexpression == a.vals IN
    IF i > Len(sexpression) THEN Leave(m, Return(m.st, Bool(FALSE)))
    ELSE LET clause == sexpression[i] IN
         IF clause.t \in {"str", "lambda", "env"} THEN Leave(m, Raise(m.st, "Unmodelled"))
         ELSE IF clause.t # "list" THEN Leave(m, Raise(m.st, "TypeError"))
         ELSE IF Len(clause.l) # 2 THEN Leave(m, Raise(m.st, "ValueError"))
         ELSE Enter(m, [a EXCEPT !.pc = "cond", !.i = i],
                    clause.l[1], a.env, a.d + 1, a.cd)

\* a faulty _cond that takes the effect of the first clause whose condition
\* evaluates, whatever its truth value
CondTestedAlways(m, a) ==
    IF ~m.ret.ok THEN Propagate(m)
    ELSE Enter(m, [a EXCEPT !.pc = "effect"],
               a.vals[a.i].l[2], a.env, a.d + 1, a.cd)

\* _cond, the condition of clause i evaluated
CondTested(m, a) ==
    IF ~m.ret.ok THEN Propagate(m)
    ELSE IF Truthy(m.st.frames, m.ret.val)
        THEN Enter(m, [a EXCEPT !.pc = "effect"],
                   a.vals[a.i].l[2], a.env, a.d + 1, a.cd)
        ELSE _cond(m, a, a.i + 1)

\* ApplyEvalInterpreter.eval, called with an environment (env is not None),
\* from _setq
eval(m, a, sexpression, env) ==
    Enter(m, [a EXCEPT !.pc = "setq"], sexpression, env, a.d + 1, a.cd)

\* ApplyEvalInterpreter._setq, to its call of self.eval
_setq(m, a) ==
    LET sexpression == a.vals IN
    IF Len(sexpression) < 2 THEN Leave(m, Raise(m.st, "IndexError"))
    ELSE eval(m, a, sexpression[2], a.env)

\* a faulty _setq that returns the value it has bound
SetqBindValue(m, a) ==
    LET sexpression == a.vals IN
    IF ~m.ret.ok THEN Propagate(m)
    ELSE IF ~Hashable(sexpression[1]) THEN Leave(m, Raise(m.st, "TypeError"))
    ELSE LET key == KeyOf(sexpression[1])
             st1 == [m.st EXCEPT !.frames = SetItem(@, a.env, key, m.ret.val)]
         IN Leave(m, Return(LogBind(st1, a.env, key, m.ret.val), m.ret.val))

\* _setq, self.eval returned: "env[sexpression[0]] = ...; return
\* sexpression[1]"
SetqBind(m, a) ==
    LET sexpression == a.vals IN
    IF ~m.ret.ok THEN Propagate(m)
    ELSE IF ~Hashable(sexpression[1]) THEN Leave(m, Raise(m.st, "TypeError"))
    ELSE LET key == KeyOf(sexpression[1])
             st1 == [m.st EXCEPT !.frames = SetItem(@, a.env, key, m.ret.val)]
         IN Leave(m, Return(LogBind(st1, a.env, key, m.ret.val), sexpression[2]))

\* fn(args, env) for a routine of self._builtins
CallRoutine(m, a, r) ==
    LET args == a.vals IN
    CASE r = "set" -> Leave(m, _set(args, a.env, m.st))
      [] r = "setq" -> _setq(m, a)
      [] r = "cond" -> _cond(m, a, 1)
      [] r = "lambda" -> Leave(m, _lambda(args, a.env, m.st))
      [] r = "car" -> Leave(m, car(args, m.st))
      [] r = "cdr" -> Leave(m, cdr(args, m.st))
      [] r = "quote" -> Leave(m, quote(args, m.st))
      [] r = "+" -> Leave(m, Plus(args, m.st))
      [] r \in {"-", "*", "/"} -> Leave(m, Reduce(r, args, m.st))
      [] r = "equal?" -> Leave(m, equal(args, m.st))

\* the last branch of _apply: the target is a lambda tuple.  The host
\* raises RuntimeError when its call stack is exhausted.
ApplyLambda(m, a, fn, definition) ==
    LET args == a.vals
        names == definition.params
    IN
    IF a.cd >= MaxDepth THEN Leave(m, Raise(m.st, "RuntimeError"))
    ELSE IF names.t # "list" THEN
        Leave(m, Raise(m.st, IF names.t = "str" THEN "Unmodelled" ELSE "TypeError"))
    ELSE IF \E i \in 1..Len(names.l) : i <= Len(args) /\ ~Hashable(names.l[i])
        THEN Leave(m, Raise(m.st, "TypeError"))
    ELSE LET fr1 == Environment(m.st.frames, definition.env)
             env == Len(fr1)
             fr2 == Update(fr1, env, ZipDict(names.l, args))
             st1 == [m.st EXCEPT
                        !.frames = fr2,
                        !.applies = Append(@, [fn |-> fn, definition |-> definition,
                                               args |-> args, from |-> a.env,
                                               env |-> env, cd |-> a.cd + 1])]
         IN Enter([m EXCEPT !.st = st1], [a EXCEPT !.pc = "body"],
                  definition.body, env, a.d + 1, a.cd + 1)

\* ApplyEvalInterpreter._apply; a.vals holds args
_apply(m, a, fn) ==
    IF fn.t = "routine" THEN CallRoutine(m, a, fn.r)
    ELSE IF ~Hashable(fn) THEN Leave(m, Raise(m.st, "TypeError"))
    ELSE LET got == GetItem(m.st.frames, a.env, KeyOf(fn)) IN
         IF got.ok /\ got.val.t = "routine" THEN CallRoutine(m, a, got.val.r)
         ELSE IF ~got.ok THEN Leave(m, Raise(m.st, "KeyError"))
         ELSE LET definition == got.val IN
              CASE definition.t = "lambda" -> ApplyLambda(m, a, fn, definition)
                [] definition.t = "str" -> Leave(m, Raise(m.st, "AssertionError"))
                [] definition.t = "list" ->
                       IF definition.l = <<>> THEN Leave(m, Raise(m.st, "IndexError"))
                       ELSE IF Head(definition.l) # Str("lambda")
                           THEN Leave(m, Raise(m.st, "AssertionError"))
                       ELSE Leave(m, Raise(m.st, "Unmodelled"))
                [] definition.t = "env" -> Leave(m, Raise(m.st, "Unmodelled"))
                [] OTHER -> Leave(m, Raise(m.st, "TypeError"))

\* map(lambda n: self._eval(n, env), args), at operand i: left to right
Map(m, a, i) ==
    LET fn == Head(a.x.l)
        args == Tail(a.x.l)
    IN IF i > Len(args) THEN _apply(m, a, fn)
       ELSE Enter(m, [a EXCEPT !.pc = "map", !.i = i], args[i], a.env, a.d + 1, a.cd)

\* map, operand i evaluated
Mapped(m, a) ==
    IF ~m.ret.ok THEN Propagate(m)
    ELSE Map(m, [a EXCEPT !.vals = Append(@, m.ret.val)], a.i + 1)

\* ApplyEvalInterpreter._eval, from its first statement
_eval(m, a) ==
    LET sexpression == a.x IN
    IF sexpression.t # "list" THEN
        IF ~Hashable(sexpression) THEN Leave(m, Raise(m.st, "TypeError"))
        ELSE Leave(m, Return(m.st, Get(m.st.frames, a.env, KeyOf(sexpression),
                                       sexpression)))
    ELSE IF sexpression.l = <<>> THEN Leave(m, Raise(m.st, "IndexError"))
    ELSE LET fn == Head(sexpression.l)
             args == Tail(sexpression.l)
         IN IF fn \notin _lazy THEN Map(m, a, 1)
            ELSE _apply(m, [a EXCEPT !.vals = args], fn)

\* one step of the innermost call: from its position to its next call of
\* _eval, or to its return
Step(m) ==
    LET a == Top(m) IN
    CASE a.pc = "eval" -> _eval(m, a)
      [] a.pc = "map" -> Mapped(m, a)
      [] a.pc = "setq" -> SetqBind(m, a)
      [] a.pc = "cond" -> CondTested(m, a)
      [] a.pc \in {"effect", "body"} -> Propagate(m)

\* the steps are taken until the outermost call has returned: up to
\* 2^LogSteps of them
LogSteps == 12

RECURSIVE Run(_, _)
Run(m, k) ==
    IF m.stack = <<>> THEN m
    ELSE IF k = 0 THEN Step(m)
    ELSE Run(Run(m, k - 1), k - 1)

(***************************************************************************)
(* Frames no live reference reaches are reclaimed by the host once the     *)
(* call that made them returns: the frame made by _apply is held by a      *)
(* local variable of _apply and, when _lambda ran in it, by the lambda     *)
(* tuple.  The driver holds the environments of envs.  Only frames at the  *)
(* end of the heap are dropped, so that no frame is renumbered.            *)
(***************************************************************************)
Refs(fr, i) ==
    LET vals == {fr[i].local[k] : k \in DOMAIN fr[i].local} IN
    ({fr[i].parent} \ {NoParent})
        \cup {v.env : v \in {w \in vals : w.t = "lambda"}}
        \cup {v.id : v \in {w \in vals : w.t = "env"}}

RECURSIVE Reachable(_, _)
Reachable(fr, S) ==
    LET T == S \cup UNION {Refs(fr, i) : i \in S} IN
    IF T = S THEN S ELSE Reachable(fr, T)

Collect(fr, roots) ==
    LET live == Reachable(fr, roots)
        m == CHOOSE i \in live : \A j \in live : j <= i
    IN SubSeq(fr, 1, m)

(***************************************************************************)
(* The driver.                                                             *)
(***************************************************************************)
MaxFrames == 4

NoHistory(fr) == [frames |-> fr, evals |-> <<>>, applies |-> <<>>, binds |-> <<>>]

Record(op, env, arg, arg2, pre, r) ==
    [op |-> op, env |-> env, arg |-> arg, arg2 |-> arg2,
     pre |-> pre, post |-> r.st.frames,
     ok |-> r.ok, val |-> r.val, err |-> r.err,
     evals |-> r.st.evals, applies |-> r.st.applies, binds |-> r.st.binds]

\* the driver holds no outcome: it has made no call yet, or has taken the
\* outcome of its last call
Idle == Record("idle", GlobalsId, None, None, <<>>, Return(NoHistory(<<>>), None))

Init ==
    /\ frames = make_global_environment
    /\ envs = {GlobalsId}
    /\ last = Idle

\* the driver takes the outcome of its last call (main() prints it); its
\* next call comes after
Observe ==
    /\ last # Idle
    /\ last' = Idle
    /\ UNCHANGED <<frames, envs>>

\* an eval that would be atomic: the heap is restored when the evaluation
\* raises
EvaluateAtomic(sexpression, env) ==
    LET m == Run([stack |-> <<Call(sexpression, env, 0, 0)>>,
                  ret |-> Outcome(Return(NoHistory(frames), None)),
                  st |-> NoHistory(frames)], LogSteps)
        st == IF m.ret.ok THEN m.st ELSE [m.st EXCEPT !.frames = frames]
        r == [st |-> st, ok |-> m.ret.ok, val |-> m.ret.val, err |-> m.ret.err]
        kept == Collect(r.st.frames, envs \cup {BuiltinsId})
    IN /\ last = Idle
       /\ Len(kept) <= MaxFrames
       /\ frames' = kept
       /\ envs' = envs
       /\ last' = Record("eval", env, sexpression, None, frames, r)

\* l.eval(sexpression, env): one top-level evaluation, to its return or to
\* the exception it raises
Evaluate(sexpression, env) ==
    LET m == Run([stack |-> <<Call(sexpression, env, 0, 0)>>,
                  ret |-> Outcome(Return(NoHistory(frames), None)),
                  st |-> NoHistory(frames)], LogSteps)
        r == [st |-> m.st, ok |-> m.ret.ok, val |-> m.ret.val, err |-> m.ret.err]
        kept == Collect(r.st.frames, envs \cup {BuiltinsId})
    IN /\ last = Idle
       /\ Len(kept) <= MaxFrames
       /\ frames' = kept
       /\ envs' = envs
       /\ last' = Record("eval", env, sexpression, None, frames, r)

\* the driver makes a child environment: Environment(parent)
NewEnvironment ==
    \E parent \in envs :
        /\ last = Idle
        /\ Len(frames) < MaxFrames
        /\ frames' = Environment(frames, parent)
        /\ envs' = envs \cup {Len(frames) + 1}
        /\ last' = Record("new", Len(frames) + 1, None, None, frames,
                          Return(NoHistory(frames'), None))

\* the driver binds through an environment: env[name] = value
Bind(env, name, value) ==
    /\ last = Idle
    /\ frames' = SetItem(frames, env, name, value)
    /\ envs' = envs
    /\ last' = Record("bind", env, name, value, frames,
                      Return(NoHistory(frames'), None))

\* the driver reads through an environment: env[item]
Lookup(env, item) ==
    LET r == GetItem(frames, env, item) IN
    /\ last = Idle
    /\ UNCHANGED <<frames, envs>>
    /\ last' = Record("getitem", env, item, None, frames,
                      [st |-> NoHistory(frames), ok |-> r.ok, val |-> r.val,
                       err |-> IF r.ok THEN "" ELSE "KeyError"])

\* the driver tests through an environment: item in env
Member(env, item) ==
    /\ last = Idle
    /\ UNCHANGED <<frames, envs>>
    /\ last' = Record("contains", env, item, None, frames,
                      Return(NoHistory(frames), Bool(Contains(frames, env, item))))

\* every outcome the drivers below reach is one the model computes as the
\* host does: the host behaviours left out (car and cdr of a string or of a
\* tuple, a sequence repeated by '*', a lambda form applied as data) are
\* never reached
Modelled == last.err # "Unmodelled"

(***************************************************************************)
(* Specification SpecEnv: a driver that uses the Environment class alone,  *)
(* on the chains it builds below the global environment.                   *)
(***************************************************************************)
Names == {Str("a"), Str("b")}
Values == {Num(1), Num(2)}

BindAny == \E env \in envs, name \in Names, value \in Values : Bind(env, name, value)

LookupAny == \E env \in envs, item \in Names \cup {Str("#t")} : Lookup(env, item)

MemberAny == \E env \in envs, item \in Names \cup {Str("#t")} : Member(env, item)

NextEnv == NewEnvironment \/ BindAny \/ LookupAny \/ MemberAny \/ Observe

SpecEnv == Init /\ [][NextEnv]_vars

\* the frames from e to the root, e first, following _parent
RECURSIVE Chain(_, _)
Chain(fr, e) ==
    IF fr[e].parent = NoParent THEN <<e>> ELSE <<e>> \o Chain(fr, fr[e].parent)

Binders(fr, e, item) ==
    {i \in 1..Len(Chain(fr, e)) : item \in DOMAIN fr[Chain(fr, e)[i]].local}

Bound(fr, e, item) == Binders(fr, e, item) # {}

\* the value item has in the nearest frame of e's chain that binds it
Nearest(fr, e, item) ==
    LET i == CHOOSE i \in Binders(fr, e, item) :
                 \A j \in Binders(fr, e, item) : i <= j
    IN fr[Chain(fr, e)[i]].local[item]

\* C2: through every chain of frames, lookup returns the value of the
\* nearest frame that binds the name and fails with UnboundName (KeyError)
\* only when no frame of the chain binds it, and contains is true exactly
\* when some frame of the chain binds it.
C2_NearestBinding ==
    /\ last.op = "getitem" =>
          /\ last.ok <=> Bound(last.pre, last.env, last.arg)
          /\ last.ok => last.val = Nearest(last.pre, last.env, last.arg)
    /\ last.op = "contains" =>
          last.val = Bool(Bound(last.pre, last.env, last.arg))

(***************************************************************************)
(* S-expressions of the driver, as the host lists main() builds.           *)
(***************************************************************************)
S(name) == Str(name)
L(items) == List(items)

Setq(name, x) == L(<<S("setq"), S(name), x>>)
SetForm(name, x) == L(<<S("set"), S(name), x>>)
Lambda(names, body) == L(<<S("lambda"), L(names), body>>)
Cond(clauses) == L(<<S("cond")>> \o clauses)
App(fn, args) == L(<<S(fn)>> \o args)

IsForm(x, head, n) == x.t = "list" /\ Len(x.l) = n + 1 /\ x.l[1] = S(head)

\* the records of a history that have nesting depth d, in order
RECURSIVE AtDepth(_, _)
AtDepth(h, d) ==
    IF h = <<>> THEN <<>>
    ELSE IF Head(h).d = d THEN <<Head(h)>> \o AtDepth(Tail(h), d)
    ELSE AtDepth(Tail(h), d)

(***************************************************************************)
(* Specification SpecBind: a driver that holds the global environment and  *)
(* children of it, binds through them and evaluates binding forms through  *)
(* them.                                                                   *)
(***************************************************************************)
Fails == App("car", <<Num(0)>>)
OnePlusOne == App("+", <<Num(1), Num(1)>>)
ZeroPlusOne == App("+", <<Num(0), Num(1)>>)
DefineF == Setq("f", Lambda(<<S("x")>>, Setq("a", S("x"))))

GlobalPrograms == { Setq("a", Num(1)), DefineF }

BindPrograms ==
    { Setq("a", Num(1)), Setq("a", OnePlusOne), Setq("a", S("a")),
      SetForm("a", Num(1)), SetForm("a", S("a")), SetForm("a", ZeroPlusOne),
      App("+", <<Setq("a", Num(1)), Fails>>),
      Setq("a", Fails),
      App("f", <<Num(1)>>) }

MaxChildren == 1

NewChild == Cardinality(envs) <= MaxChildren /\ NewEnvironment

EvaluateGlobal == \E x \in GlobalPrograms : Evaluate(x, GlobalsId)

EvaluateBind == \E x \in BindPrograms, env \in envs \ {GlobalsId} : Evaluate(x, env)

BindChild == \E env \in envs \ {GlobalsId}, value \in Values : Bind(env, Str("a"), value)

NextBind == NewChild \/ EvaluateGlobal \/ EvaluateBind \/ BindChild \/ Observe

SpecBind == Init /\ [][NextBind]_vars

\* the frames above e on its chain, the root table included
Ancestors(fr, e) == {Chain(fr, e)[i] : i \in 2..Len(Chain(fr, e))}

\* every key some frame of the heap binds
Keys(fr) == UNION {DOMAIN fr[i].local : i \in 1..Len(fr)}

\* the indices of the records of history h that bind key through env
BindsOf(h, env, key) == {i \in 1..Len(h) : h[i].env = env /\ h[i].key = key}

\* the value of the last record of history h that binds key through env
LastBound(h, env, key) ==
    h[CHOOSE i \in BindsOf(h, env, key) : \A j \in BindsOf(h, env, key) : j <= i].v

\* C5: a bind, and an evaluation (set, setq, closure applications),
\* performed through a frame e writes only local frames: the name it rebinds
\* through e looks up to the new value through e, and the local bindings of
\* every ancestor of e, the root table of built-ins included, are what they
\* were, so that every lookup through the parent gives what it gave before.
C5_LocalShadowing ==
    last.op \in {"bind", "eval"} =>
        /\ \A i \in Ancestors(last.pre, last.env) : last.post[i] = last.pre[i]
        /\ \A i \in Ancestors(last.pre, last.env) : \A k \in Keys(last.post) :
               GetItem(last.post, i, k) = GetItem(last.pre, i, k)
        /\ last.op = "bind" =>
               GetItem(last.post, last.env, last.arg) = [ok |-> TRUE, val |-> last.arg2]
        /\ \A k \in Keys(last.post) :
               BindsOf(last.binds, last.env, k) # {} =>
                   GetItem(last.post, last.env, k) =
                       [ok |-> TRUE, val |-> LastBound(last.binds, last.env, k)]

\* C5's case: a set or setq evaluated through a child frame rebinds a name
\* that the parent binds to another value, and the parent keeps its own
WitnessC5 ==
    /\ last.op = "eval" /\ last.ok /\ last.env # GlobalsId
    /\ last.binds # <<>>
    /\ \E k \in Names :
          /\ BindsOf(last.binds, last.env, k) # {}
          /\ k \in DOMAIN last.pre[GlobalsId].local
          /\ GetItem(last.post, GlobalsId, k).val # GetItem(last.post, last.env, k).val

\* C7: (setq name valueExpr) evaluates valueExpr exactly once, in env, binds
\* the literal name (not evaluated) to the result in env's local frame, and
\* returns the unevaluated valueExpr.
C7_SetqReturnsExpression ==
    (last.op = "eval" /\ IsForm(last.arg, "setq", 2) /\ last.ok) =>
        LET name == last.arg.l[2]
            valueExpr == last.arg.l[3]
            sub == AtDepth(last.evals, 1)
        IN /\ Len(sub) = 1
           /\ sub[1].e = valueExpr /\ sub[1].env = last.env /\ sub[1].ok
           /\ KeyOf(name) \in DOMAIN last.post[last.env].local
           /\ last.post[last.env].local[KeyOf(name)] = sub[1].v
           /\ \A k \in DOMAIN last.post[last.env].local \ {KeyOf(name)} :
                  /\ k \in DOMAIN last.pre[last.env].local
                  /\ last.post[last.env].local[k] = last.pre[last.env].local[k]
           /\ last.val = valueExpr

\* C7's case: a setq of a name that is already bound, whose valueExpr is an
\* applicable list, so that the value bound differs from the form returned
WitnessC7 ==
    /\ last.op = "eval" /\ IsForm(last.arg, "setq", 2) /\ last.ok
    /\ last.arg.l[3].t = "list"
    /\ KeyOf(last.arg.l[2]) \in DOMAIN last.pre[last.env].local
    /\ last.post[last.env].local[KeyOf(last.arg.l[2])] = Num(2)
    /\ last.val # Num(2)

\* C8, as claimed: (set name valueExpr) binds the literal name to valueExpr
\* as written, unevaluated, in env's local frame, and returns valueExpr.
C8_SetUnevaluated ==
    (last.op = "eval" /\ IsForm(last.arg, "set", 2) /\ last.ok) =>
        LET name == last.arg.l[2]
            valueExpr == last.arg.l[3]
        IN /\ KeyOf(name) \in DOMAIN last.post[last.env].local
           /\ last.post[last.env].local[KeyOf(name)] = valueExpr
           /\ last.val = valueExpr

\* C8, amended: set is strict.  (set nameExpr valueExpr) evaluates both
\* operands in env, left to right, binds the value of nameExpr (the name
\* itself only when it is unbound) to the value of valueExpr in env's local
\* frame, and returns the value of valueExpr.
C8_SetIsStrict ==
    (last.op = "eval" /\ IsForm(last.arg, "set", 2) /\ last.ok) =>
        LET sub == AtDepth(last.evals, 1) IN
        /\ Len(sub) = 2
        /\ sub[1].e = last.arg.l[2] /\ sub[2].e = last.arg.l[3]
        /\ sub[1].env = last.env /\ sub[2].env = last.env
        /\ sub[1].ok /\ sub[2].ok
        /\ KeyOf(sub[1].v) \in DOMAIN last.post[last.env].local
        /\ last.post[last.env].local[KeyOf(sub[1].v)] = sub[2].v
        /\ last.val = sub[2].v

\* C8's case: a set whose name is bound (to 2) and whose valueExpr is an
\* applicable list: the key bound is 2, the value bound is 1
WitnessC8 ==
    /\ last.op = "eval" /\ IsForm(last.arg, "set", 2) /\ last.ok
    /\ last.arg.l[3].t = "list"
    /\ GetItem(last.pre, last.env, last.arg.l[2]) = [ok |-> TRUE, val |-> Num(2)]
    /\ Num(2) \in DOMAIN last.post[last.env].local
    /\ last.val = Num(1)

\* C10, as claimed: when an evaluation fails no value is returned and the
\* bindings visible through env are those visible before the call.
C10_FailureIsAtomic ==
    (last.op = "eval" /\ ~last.ok) =>
        /\ last.val = None
        /\ \A k \in Keys(last.post) :
               GetItem(last.post, last.env, k) = GetItem(last.pre, last.env, k)

\* C10, amended: when an evaluation fails no value is returned, and the
\* failure is not atomic: the bindings visible through env are those
\* visible before the call overridden by the bindings that the set and
\* setq sub-expressions evaluated in env before the failure made, which are
\* left behind.
C10_FailureLeavesBindings ==
    (last.op = "eval" /\ ~last.ok) =>
        /\ last.val = None /\ last.err # ""
        /\ \A k \in Keys(last.post) :
               GetItem(last.post, last.env, k) =
                   IF BindsOf(last.binds, last.env, k) # {}
                   THEN [ok |-> TRUE, val |-> LastBound(last.binds, last.env, k)]
                   ELSE GetItem(last.pre, last.env, k)

\* C10's case: a failed evaluation that evaluated a setq before it failed,
\* of a name that was not visible before
WitnessC10 ==
    /\ last.op = "eval" /\ ~last.ok
    /\ last.binds # <<>>
    /\ \E k \in Names :
          /\ ~GetItem(last.pre, last.env, k).ok
          /\ GetItem(last.post, last.env, k).ok

(***************************************************************************)
(* Specification SpecCond: a driver that binds a and evaluates cond forms  *)
(* in the global environment.                                              *)
(***************************************************************************)
MaxClauses == 3

\* (condition, effect) pairs: conditions that are false, true, a variable,
\* and that bind; effects that bind
Clauses ==
    { L(<<S("#nil"), Setq("r", Num(1))>>),
      L(<<Setq("p", Num(0)), Num(5)>>),
      L(<<S("a"), Setq("r", Num(2))>>),
      L(<<Setq("q", Num(1)), Setq("r", Num(3))>>),
      L(<<Fails, Num(9)>>) }

RECURSIVE SeqsUpTo(_, _)
SeqsUpTo(set, n) ==
    IF n = 0 THEN {<<>>}
    ELSE LET shorter == SeqsUpTo(set, n - 1) IN
         shorter \cup {Append(q, x) : q \in shorter, x \in set}

CondPrograms == {Cond(cs) : cs \in SeqsUpTo(Clauses, MaxClauses)}

EvaluateCond == \E x \in CondPrograms : Evaluate(x, GlobalsId)

BindGlobal == \E value \in {Num(0), Num(1)} : Bind(GlobalsId, Str("a"), value)

NextCond == EvaluateCond \/ BindGlobal \/ Observe

SpecCond == Init /\ [][NextCond]_vars

\* the cond form evaluated last evaluated, of its clauses and in this order,
\* exactly: the conditions of clauses 1..k, and then, when matched, the
\* effect of clause k
CondEvaluated(k, matched) ==
    LET clauses == Tail(last.arg.l)
        sub == AtDepth(last.evals, 1)
    IN /\ Len(sub) = IF matched THEN k + 1 ELSE k
       /\ \A j \in 1..k : sub[j].e = clauses[j].l[1] /\ sub[j].env = last.env
       /\ \A j \in 1..(k - 1) : sub[j].ok /\ ~Truthy(last.post, sub[j].v)
       /\ matched => /\ sub[k].ok /\ Truthy(last.post, sub[k].v)
                     /\ sub[k + 1].e = clauses[k].l[2]
                     /\ sub[k + 1].env = last.env

\* C3: (cond (C1 R1) (C2 R2) ...) evaluates the conditions in clause order
\* in the current environment, returns the value of R_k for the first k
\* whose C_k is truthy and the false value when none is; nothing of a clause
\* after the matching one is evaluated, and no R_j with j < k is.
C3_CondFirstMatch ==
    (last.op = "eval" /\ last.arg.t = "list" /\ Head(last.arg.l) = S("cond")) =>
        LET clauses == Tail(last.arg.l)
            sub == AtDepth(last.evals, 1)
        IN \/ \E k \in 1..Len(clauses) :
                 /\ CondEvaluated(k, TRUE)
                 /\ last.ok = sub[k + 1].ok
                 /\ last.val = sub[k + 1].v
           \/ /\ CondEvaluated(Len(clauses), FALSE)
              /\ Len(clauses) > 0 => /\ sub[Len(clauses)].ok
                                     /\ ~Truthy(last.post, sub[Len(clauses)].v)
              /\ last.ok /\ last.val = Bool(FALSE)
           \/ \E k \in 1..Len(clauses) :
                 /\ CondEvaluated(k, FALSE)
                 /\ ~sub[k].ok /\ ~last.ok

\* C3's case: the second of three clauses matches, after a first condition
\* that was false, and the third clause, which would bind q and r, is
\* skipped: neither is bound
WitnessC3 ==
    /\ last.op = "eval" /\ last.arg.t = "list" /\ Head(last.arg.l) = S("cond")
    /\ Len(last.arg.l) = 4
    /\ last.arg.l[4] = L(<<Setq("q", Num(1)), Setq("r", Num(3))>>)
    /\ last.arg.l[3] = L(<<S("a"), Setq("r", Num(2))>>)
    /\ last.arg.l[2] = L(<<Setq("p", Num(0)), Num(5)>>)
    /\ last.ok /\ last.val = Num(2)
    /\ DOMAIN last.post[GlobalsId].local \cap {S("q"), S("r"), S("p")} = {S("r"), S("p")}
    /\ last.post[GlobalsId].local[S("r")] = Num(2)

(***************************************************************************)
(* Specification SpecArith: a driver that binds a and evaluates sums and   *)
(* products in the global environment.                                     *)
(***************************************************************************)
MaxOperands == 3

Operands == {Num(1), Num(2), Num(3), S("a")}

ArithPrograms ==
    {App(op, xs) : op \in {"+", "*"}, xs \in SeqsUpTo(Operands, MaxOperands)}

EvaluateArith == \E x \in ArithPrograms : Evaluate(x, GlobalsId)

BindOperand == \E value \in {Num(0), Num(2)} : Bind(GlobalsId, Str("a"), value)

NextArith == EvaluateArith \/ BindOperand \/ Observe

SpecArith == Init /\ [][NextArith]_vars

RECURSIVE SumOf(_)
SumOf(events) ==
    IF events = <<>> THEN 0 ELSE NumOf(Head(events).v) + SumOf(Tail(events))

RECURSIVE ProductOf(_)
ProductOf(events) ==
    IF events = <<>> THEN 1 ELSE NumOf(Head(events).v) * ProductOf(Tail(events))

\* C9: + and * fold over any number of evaluated operands, zero included:
\* (+) is 0 and (*) is 1, and for k >= 1 operands they are the sum and the
\* product of the operands' values.
C9_FoldFromIdentity ==
    LET sub == AtDepth(last.evals, 1) IN
    (/\ last.op = "eval" /\ last.arg.t = "list"
     /\ Head(last.arg.l) \in {S("+"), S("*")}
     /\ Len(sub) = Len(last.arg.l) - 1
     /\ \A i \in 1..Len(sub) : sub[i].ok /\ sub[i].v.t = "int") =>
        /\ last.ok
        /\ last.val = Num(IF Head(last.arg.l) = S("+") THEN SumOf(sub)
                          ELSE ProductOf(sub))

(***************************************************************************)
(* Specification Spec: a driver that binds y, defines functions with setq  *)
(* and calls them, in the global environment, as main() does.              *)
(***************************************************************************)
MaxN == 5

\* the expression main() evaluates first; the last condition is `otherwise`:
\* the host's True in main(), the symbol #t in the language
DefineFactorial(otherwise) ==
    Setq("factorial",
         Lambda(<<S("x")>>,
                Cond(<<L(<<App("equal?", <<S("x"), Num(0)>>), Num(1)>>),
                       L(<<otherwise,
                           App("*", <<S("x"),
                                      App("factorial",
                                          <<App("-", <<S("x"), Num(1)>>)>>)>>)>>)>>)))

FactorialDefinitions == {DefineFactorial(Bool(TRUE)), DefineFactorial(S("#t"))}

FactorialCalls == {App("factorial", <<Num(n)>>) : n \in 0..MaxN}

ClosurePrograms ==
    { \* a function of no argument that returns a function of no argument
      Setq("mk", Lambda(<<>>, Lambda(<<>>, S("y")))),
      Setq("f", App("mk", <<>>)),
      App("f", <<>>),
      \* a function that binds y itself and calls f
      Setq("g", Lambda(<<S("y")>>, App("f", <<>>))),
      App("g", <<Num(7)>>),
      \* a function of one argument with the free variables y and z
      Setq("h", Lambda(<<S("x")>>, App("+", <<S("x"), S("y")>>))),
      Setq("p", Lambda(<<S("x")>>, S("z"))),
      \* a function that binds y and z itself and calls h and p
      Setq("k", Lambda(<<S("y"), S("z")>>,
                       App("+", <<App("h", <<Num(1)>>), App("p", <<Num(1)>>)>>))),
      App("h", <<Num(1)>>),
      App("k", <<Num(7), Num(8)>>),
      \* calls with too few and too many arguments
      App("h", <<>>),
      App("p", <<Num(1), Num(2)>>) }

EvaluateClosure == \E x \in ClosurePrograms : Evaluate(x, GlobalsId)

EvaluateFactorial ==
    \E x \in FactorialDefinitions \cup FactorialCalls : Evaluate(x, GlobalsId)

BindFree == \E value \in Values : Bind(GlobalsId, Str("y"), value)

Next == EvaluateClosure \/ EvaluateFactorial \/ BindFree \/ Observe

Spec == Init /\ [][Next]_vars

\* the records of the evaluation history that evaluate a name in frame env
NamesEvaluatedIn(env) ==
    {i \in 1..Len(last.evals) :
        last.evals[i].env = env /\ last.evals[i].e.t = "str"}

\* C1: closures are lexically scoped.  The body of a closure made in
\* environment A and applied from environment B runs in a fresh frame whose
\* parent is A: every free variable of the body has the binding visible
\* through A, whatever B binds, and a name that A's chain does not bind is
\* not visible to the body (it evaluates to itself).
C1_LexicalScope ==
    last.op = "eval" =>
        \A n \in 1..Len(last.applies) :
            LET ap == last.applies[n]
                A == ap.definition.env
            IN /\ last.post[ap.env].parent = A
               /\ \A i \in NamesEvaluatedIn(ap.env) :
                     LET ev == last.evals[i] IN
                     ev.e \notin DOMAIN last.post[ap.env].local =>
                         ev.v = IF Bound(last.post, A, ev.e)
                                THEN Nearest(last.post, A, ev.e)
                                ELSE ev.e

\* C6: a closure applied to a number of arguments that differs from its
\* number of parameter names fails with ArityMismatch.
C6_ArityMismatch ==
    last.op = "eval" =>
        \A n \in 1..Len(last.applies) :
            LET ap == last.applies[n] IN
            Len(ap.args) # Len(ap.definition.params.l) =>
                ~last.ok /\ last.err = "ArityMismatch"

RECURSIVE Factorial(_)
Factorial(n) == IF n = 0 THEN 1 ELSE n * Factorial(n - 1)

\* C4: once factorial is bound in the global environment by the setq of
\* main(), (factorial n) for n in 0..MaxN ends after n + 1 nested closure
\* applications, to the arguments n, n - 1, ..., 0, and yields n!.
C4_Factorial ==
    (/\ last.op = "eval" /\ last.arg \in FactorialCalls
     /\ S("factorial") \in DOMAIN last.pre[GlobalsId].local) =>
        LET n == last.arg.l[2].n IN
        /\ last.ok
        /\ last.val = Num(Factorial(n))
        /\ Len(last.applies) = n + 1
        /\ \A i \in 1..(n + 1) :
              /\ last.applies[i].cd = i
              /\ last.applies[i].args = <<Num(n + 1 - i)>>

\* C4's case: (factorial 5) has returned 120 after 6 nested applications
WitnessC4 ==
    /\ last.op = "eval" /\ last.arg = App("factorial", <<Num(5)>>)
    /\ last.ok /\ last.val = Num(120)
    /\ Len(last.applies) = 6
    /\ last.applies[6].cd = 6

====
